---- MODULE Spec2Model ----
(***************************************************************************)
(* The quiz generator of src/streamlit_app.py as a state machine.          *)
(*                                                                         *)
(* One step of the model is one run of main() (Streamlit runs the script   *)
(* from top to bottom once per user interaction).  st.session_state is the *)
(* variable session_state, a function whose DOMAIN is the set of keys      *)
(* present.  The reply of the language model is a text, modelled as a      *)
(* sequence of tokens that json.loads really has to parse.                 *)
(***************************************************************************)
EXTENDS Integers, Sequences, FiniteSets, TLC

(***************************************************************************)
(* Bounds of the model.                                                    *)
(***************************************************************************)
MaxQuestions == 2
MaxProse == 1
MaxTime == 2
MaxScored == 5

(***************************************************************************)
(* Python values reachable from a parsed reply.  Every value is a record   *)
(* with the same three fields, so that any two values can be compared.     *)
(*   tag "dict":     a JSON object; its only possible member is            *)
(*                   "questions", held in items (<<>> when absent)         *)
(*   tag "list":     a JSON array, its elements in items                   *)
(*   tag "question": a JSON object with the members question, options,     *)
(*                   correct_answer and explanation; kind selects its text *)
(*   tag "str":      a Python str (a key met when iterating over a dict)   *)
(*   tag "None":     Python None                                           *)
(***************************************************************************)
None == [tag |-> "None", items |-> <<>>, kind |-> ""]
Str == [tag |-> "str", items |-> <<>>, kind |-> ""]
Dict(members) == [tag |-> "dict", items |-> members, kind |-> ""]
List(elems) == [tag |-> "list", items |-> elems, kind |-> ""]
Question(k) == [tag |-> "question", items |-> <<>>, kind |-> k]

\* The question objects a reply can contain: kind "a" has the options
\* "A1", "B1" and correct_answer "A"; kind "b" has "A2", "B2" and "B".
Kinds == {"a", "b"}
Options(q) == IF q.kind = "a" THEN << <<"A", "1">>, <<"B", "1">> >>
              ELSE << <<"A", "2">>, <<"B", "2">> >>
CorrectAnswer(q) == IF q.kind = "a" THEN "A" ELSE "B"

(***************************************************************************)
(* json.loads on a token text.  Tokens: "{" "}" "[" "]" "," are the JSON   *)
(* punctuation, "Q" is the member name "questions" with its colon, "a" and *)
(* "b" are whole question objects, "x" is a word of prose (never JSON).    *)
(***************************************************************************)
ParseFail == [ok |-> FALSE, val |-> None, rest |-> <<>>]
ParseOk(v, r) == [ok |-> TRUE, val |-> v, rest |-> r]

RECURSIVE ParseValue(_)
RECURSIVE ParseItems(_, _)
ParseValue(s) ==
    IF s = <<>> THEN ParseFail
    ELSE LET h == Head(s)
             t == Tail(s)
         IN  IF h \in Kinds THEN ParseOk(Question(h), t)
             ELSE IF h = "{" THEN
                 IF t # <<>> /\ Head(t) = "}" THEN ParseOk(Dict(<<>>), Tail(t))
                 ELSE IF t # <<>> /\ Head(t) = "Q" THEN
                     LET r == ParseValue(Tail(t))
                     IN  IF r.ok /\ r.rest # <<>> /\ Head(r.rest) = "}"
                         THEN ParseOk(Dict(<<r.val>>), Tail(r.rest))
                         ELSE ParseFail
                 ELSE ParseFail
             ELSE IF h = "[" THEN
                 IF t # <<>> /\ Head(t) = "]" THEN ParseOk(List(<<>>), Tail(t))
                 ELSE ParseItems(t, <<>>)
             ELSE ParseFail
ParseItems(s, acc) ==
    LET r == ParseValue(s)
    IN  IF ~r.ok \/ r.rest = <<>> THEN ParseFail
        ELSE IF Head(r.rest) = "," THEN ParseItems(Tail(r.rest), Append(acc, r.val))
        ELSE IF Head(r.rest) = "]" THEN ParseOk(List(Append(acc, r.val)), Tail(r.rest))
        ELSE ParseFail

\* json.loads(text): the whole text must be one JSON value; ok = FALSE is
\* json.JSONDecodeError.
json_loads(text) ==
    LET r == ParseValue(text)
    IN  IF r.ok /\ r.rest = <<>> THEN [ok |-> TRUE, val |-> r.val]
        ELSE [ok |-> FALSE, val |-> None]

\* re.search(r'\{.*\}', text, re.DOTALL): the span from the first "{" to the
\* last "}" after it; <<>> when there is no such span (match is None).
re_search(text) ==
    LET opens == {i \in 1..Len(text) : text[i] = "{"}
        first == CHOOSE i \in opens : \A j \in opens : i <= j
        closes == {i \in 1..Len(text) : text[i] = "}" /\ i > first}
        last == CHOOSE i \in closes : \A j \in closes : j <= i
    IN  IF opens = {} THEN <<>>
        ELSE IF closes = {} THEN <<>>
        ELSE SubSeq(text, first, last)

(***************************************************************************)
(* The outcome of the call client.chat.completions.create: it raises, or   *)
(* it returns a message whose content is None, or a text.                  *)
(***************************************************************************)
ApiError == [status |-> "error", text |-> <<>>]
NoContent == [status |-> "null", text |-> <<>>]
Content(text) == [status |-> "text", text |-> text]

\* format_response_to_json(raw_response).  raised = TRUE: json.loads raised
\* something that is no JSONDecodeError (TypeError on None), which the
\* function does not catch.  error is the text handed to st.error.
format_response_to_json(raw_response) ==
    IF raw_response.status # "text"
    THEN [raised |-> TRUE, val |-> None, error |-> ""]
    ELSE LET direct == json_loads(raw_response.text)
             match == re_search(raw_response.text)
             inner == json_loads(match)
         IN  IF direct.ok THEN [raised |-> FALSE, val |-> direct.val, error |-> ""]
             ELSE IF match = <<>>
                  THEN [raised |-> FALSE, val |-> None, error |-> "Error formatting response: No JSON-like content found in response"]
             ELSE IF inner.ok THEN [raised |-> FALSE, val |-> inner.val, error |-> ""]
             ELSE [raised |-> FALSE, val |-> None, error |-> "Error formatting response: JSONDecodeError"]

\* isinstance(v, dict) and "questions" in v
isinstance_dict(v) == v.tag \in {"dict", "question"}
has_questions(v) == v.tag = "dict" /\ v.items # <<>>

\* generate_quiz(topic, number, difficulty), given the outcome of the model
\* call.  data is the return value, errors the texts handed to st.error.
generate_quiz(topic, number, difficulty, response) ==
    IF response.status = "error"
    THEN [data |-> None, errors |-> {"Error generating quiz"}]
    ELSE LET f == format_response_to_json(response)
             quiz_data == f.val
         IN  IF f.raised THEN [data |-> None, errors |-> {"Error generating quiz"}]
             ELSE IF quiz_data = None
                  THEN [data |-> None,
                        errors |-> {f.error, "Failed to generate a valid quiz. Please try again."} \ {""}]
             ELSE IF ~isinstance_dict(quiz_data) \/ ~has_questions(quiz_data)
                  THEN [data |-> None, errors |-> {"Invalid quiz format. Please try again."}]
             ELSE [data |-> quiz_data, errors |-> {}]

(***************************************************************************)
(* The replies the language model may give.  The model's reply is not      *)
(* constrained by the prompt: it is any JSON value of the shapes below,    *)
(* written out as text, possibly cut short, possibly wrapped in prose      *)
(* (which may itself contain braces).                                      *)
(***************************************************************************)
RECURSIVE SeqsUpTo(_, _)
SeqsUpTo(S, n) ==
    IF n = 0 THEN {<<>>}
    ELSE LET shorter == SeqsUpTo(S, n - 1)
         IN  shorter \cup {Append(s, x) : s \in shorter, x \in S}

QuestionLists == SeqsUpTo({Question(k) : k \in Kinds}, MaxQuestions)

JsonValues ==
    {Dict(<<List(qs)>>) : qs \in QuestionLists}
    \cup {Dict(<<>>), List(<<>>), Question("a"), Dict(<<Question("a")>>)}

RECURSIVE Serialize(_)
RECURSIVE SerializeItems(_)
Serialize(v) ==
    IF v.tag = "question" THEN <<v.kind>>
    ELSE IF v.tag = "dict" THEN
        IF v.items = <<>> THEN <<"{", "}">>
        ELSE <<"{", "Q">> \o Serialize(v.items[1]) \o <<"}">>
    ELSE <<"[">> \o SerializeItems(v.items) \o <<"]">>
SerializeItems(items) ==
    IF items = <<>> THEN <<>>
    ELSE IF Len(items) = 1 THEN Serialize(items[1])
    ELSE Serialize(items[1]) \o <<",">> \o SerializeItems(Tail(items))

Prose == SeqsUpTo({"x", "{", "}"}, MaxProse)
Bodies ==
    {Serialize(v) : v \in JsonValues}
    \cup {SubSeq(Serialize(v), 1, Len(Serialize(v)) - 1) : v \in JsonValues}
Replies == {pre \o body \o post : pre \in Prose, body \in Bodies, post \in Prose}

ApiOutcomes == {ApiError, NoContent} \cup {Content(text) : text \in Replies}

(***************************************************************************)
(* Python and Streamlit helpers used by main().                            *)
(***************************************************************************)
\* d[k] = v and del d[k] on a mapping whose DOMAIN is its set of keys
Put(d, k, v) == (k :> v) @@ d
Remove(d, ks) == [x \in DOMAIN d \ ks |-> d[x]]

\* bool(quiz_data)
Truthy(v) == v.tag # "None" /\ ~(v.tag \in {"dict", "list"} /\ v.items = <<>>)

\* What enumerate(quiz["questions"]) yields: the elements of a list, the keys
\* (strings) of a mapping.
Elements(v) ==
    IF v.tag = "list" THEN v.items
    ELSE IF v.tag = "dict" THEN [i \in 1..Len(v.items) |-> Str]
    ELSE IF v.tag = "question" THEN <<Str, Str, Str, Str>>
    ELSE <<>>
Questions(ss) == ss.quiz.items[1]
PyLen(v) == Len(Elements(v))

\* The first element (1-based) on which q["question"] raises; Len + 1 if none.
FirstBad(els) ==
    LET bad == {i \in 1..Len(els) : els[i].tag # "question"}
    IN  IF bad = {} THEN Len(els) + 1
        ELSE CHOOSE i \in bad : \A j \in bad : i <= j
SubscriptError(q) == IF q.tag = "dict" THEN "KeyError" ELSE "TypeError"

\* Exact quotients: a / b is the pair num / den.
Frac(a, b) == [num |-> a, den |-> b]
AtLeast(f, n) == f.num >= n * f.den

(***************************************************************************)
(* The state.                                                              *)
(*   session_state  st.session_state without the widget keys               *)
(*   widgets        the state Streamlit keeps for the radios q_<i> that    *)
(*                  have a selection: i |-> [options, value].  A radio     *)
(*                  keeps its state from run to run as long as it is       *)
(*                  rendered with the same key and the same options        *)
(*   now            the last value read from the clock, in seconds         *)
(*   view           what the last run rendered: the number of radios, the  *)
(*                  Submit button, the Try Another Quiz button             *)
(*   messages       texts of st.warning / st.error / st.success / st.info  *)
(*                  of the last run                                        *)
(*   report         <<>> or <<r>>, the statistics the last run computed    *)
(*   exc            the exception that ended the last run, "" if none      *)
(*   event          the interaction that caused the last run               *)
(*   reply          the content of the reply that generate_quiz reads in   *)
(*                  SpecNormalize; <<>> in the other specifications, whose  *)
(*                  runs draw the result of generate_quiz from             *)
(*                  GenerateQuizTable                                      *)
(***************************************************************************)
VARIABLES session_state, widgets, now, view, messages, report, exc, event, reply
vars == <<session_state, widgets, now, view, messages, report, exc, event, reply>>

TopicInputs == {"", "algebra"}
Difficulties == {"medium"}
NumberInputs == {1}

FormOnly == [radios |-> 0, submit |-> FALSE, try_another |-> FALSE]
SessionKeys == {"quiz", "user_answers", "quiz_submitted", "start_time",
                "total_time", "current_topic", "current_difficulty"}

\* GenerateSection with the topic and the difficulty stored before quiz_data
\* is tested.
GenerateSection_StoresInputsFirst(ss, topic, difficulty, quiz_data, t) ==
    LET s0 == Put(Put(ss, "current_topic", topic), "current_difficulty", difficulty)
    IN  IF Truthy(quiz_data)
        THEN Put(Put(Put(Put(s0, "quiz", quiz_data), "user_answers", <<>>),
                     "quiz_submitted", FALSE), "start_time", t)
        ELSE s0

\* GenerateSection keeping the answers recorded for the previous quiz.
GenerateSection_KeepsAnswers(ss, topic, difficulty, quiz_data, t) ==
    IF Truthy(quiz_data)
    THEN LET s1 == Put(ss, "quiz", quiz_data)
             s2 == IF "user_answers" \in DOMAIN ss THEN s1 ELSE Put(s1, "user_answers", <<>>)
             s3 == Put(s2, "quiz_submitted", FALSE)
             s4 == Put(s3, "start_time", t)
             s5 == Put(s4, "current_topic", topic)
         IN  Put(s5, "current_difficulty", difficulty)
    ELSE ss

\* if st.button("Generate Quiz"): ... if quiz_data: (six assignments)
GenerateSection(ss, topic, difficulty, quiz_data, t) ==
    IF Truthy(quiz_data)
    THEN LET s1 == Put(ss, "quiz", quiz_data)
             s2 == Put(s1, "user_answers", <<>>)
             s3 == Put(s2, "quiz_submitted", FALSE)
             s4 == Put(s3, "start_time", t)
             s5 == Put(s4, "current_topic", topic)
         IN  Put(s5, "current_difficulty", difficulty)
    ELSE ss

\* RadioLoop storing the last character of the selected option.
RadioLoop_StoresLastCharacter(ss, w, els, k) ==
    LET kept == {i \in 0..(k - 2) : i \in DOMAIN w /\ w[i].options = Options(els[i + 1])}
        answered == {i \in kept : w[i].value # <<>>}
    IN  [session_state |->
             Put(ss, "user_answers",
                 [i \in DOMAIN ss.user_answers \cup answered |->
                     IF i \in answered THEN w[i].value[Len(w[i].value)]
                     ELSE ss.user_answers[i]]),
         widgets |-> [i \in kept |-> w[i]],
         radios |-> k - 1,
         exc |-> IF k <= Len(els) THEN SubscriptError(els[k]) ELSE ""]

\* for i, q in enumerate(quiz["questions"]): st.radio(...); if answer: ...
\* Indices are Python's (from 0); element i is els[i + 1].
RadioLoop(ss, w, els, k) ==
    LET kept == {i \in 0..(k - 2) : i \in DOMAIN w /\ w[i].options = Options(els[i + 1])}
        answered == {i \in kept : w[i].value # <<>>}
    IN  [session_state |->
             Put(ss, "user_answers",
                 [i \in DOMAIN ss.user_answers \cup answered |->
                     IF i \in answered THEN Head(w[i].value) ELSE ss.user_answers[i]]),
         widgets |-> [i \in kept |-> w[i]],
         radios |-> k - 1,
         exc |-> IF k <= Len(els) THEN SubscriptError(els[k]) ELSE ""]

\* The loop over the questions of the stored quiz, up to the first element
\* that raises.
DisplayQuiz(ss, w) ==
    RadioLoop(ss, w, Elements(Questions(ss)), FirstBad(Elements(Questions(ss))))

\* SubmitSection testing only that some answer was recorded.
SubmitSection_AnyAnswer(ss, t) ==
    IF Cardinality(DOMAIN ss.user_answers) = 0 /\ PyLen(Questions(ss)) > 0
    THEN [session_state |-> ss,
          messages |-> {"Please answer all questions before submitting."}]
    ELSE [session_state |-> Put(Put(ss, "quiz_submitted", TRUE), "total_time", t - ss.start_time),
          messages |-> {}]

\* if st.button("Submit Quiz"): ...
SubmitSection(ss, t) ==
    IF Cardinality(DOMAIN ss.user_answers) < PyLen(Questions(ss))
    THEN [session_state |-> ss,
          messages |-> {"Please answer all questions before submitting."}]
    ELSE [session_state |-> Put(Put(ss, "quiz_submitted", TRUE), "total_time", t - ss.start_time),
          messages |-> {}]

\* format_time(seconds)
format_time(seconds) == [minutes |-> seconds \div 60, seconds |-> seconds % 60]

\* send_email_report(...): every failure of the mail transport is caught and
\* turned into False and a message.
send_email_report(transport_ok) ==
    IF transport_ok THEN [sent |-> TRUE, messages |-> {}]
    ELSE [sent |-> FALSE, messages |-> {"Failed to send email report"}]

\* ScoreMessage with the lower bound of each band excluded.
ScoreMessage_ExclusiveBounds(score_percentage, difficulty) ==
    IF ~AtLeast(Frac(80 * score_percentage.den, 1), score_percentage.num) THEN
        IF difficulty = "easy" THEN "Excellent! You're ready for medium difficulty!"
        ELSE IF difficulty = "medium" THEN "Outstanding! Try hard difficulty next!"
        ELSE "Impressive mastery of advanced concepts!"
    ELSE IF ~AtLeast(Frac(60 * score_percentage.den, 1), score_percentage.num)
    THEN "Good job! Keep practicing to improve your score."
    ELSE "You might want to review the topic and try again."

\* The score interpretation at the end of the results.
ScoreMessage(score_percentage, difficulty) ==
    IF AtLeast(score_percentage, 80) THEN
        IF difficulty = "easy" THEN "Excellent! You're ready for medium difficulty!"
        ELSE IF difficulty = "medium" THEN "Outstanding! Try hard difficulty next!"
        ELSE "Impressive mastery of advanced concepts!"
    ELSE IF AtLeast(score_percentage, 60) THEN "Good job! Keep practicing to improve your score."
    ELSE "You might want to review the topic and try again."

\* ShowResults with the score left as a fraction of 1.
ShowResults_ScoreNotInPercent(ss, transport_ok) ==
    LET els == Elements(Questions(ss))
        right == {i \in 0..(Len(els) - 1) :
                     /\ i \in DOMAIN ss.user_answers
                     /\ ss.user_answers[i] = CorrectAnswer(els[i + 1])}
        total_questions == PyLen(Questions(ss))
        score_percentage == Frac(Cardinality(right), total_questions)
        mail == send_email_report(transport_ok)
    IN  IF total_questions = 0 \/ ss.total_time = 0
        THEN [report |-> <<>>, messages |-> {}, exc |-> "ZeroDivisionError"]
        ELSE [report |-> << [score |-> score_percentage,
                             correct_answers |-> Cardinality(right),
                             incorrect_answers |-> Len(els) - Cardinality(right),
                             total_questions |-> total_questions,
                             total_time |-> format_time(ss.total_time),
                             questions_per_minute |-> Frac(total_questions * 60, ss.total_time)] >>,
              messages |-> mail.messages
                           \cup (IF mail.sent THEN {"Quiz report has been sent to parent's email!"} ELSE {})
                           \cup {ScoreMessage(score_percentage, ss.current_difficulty)},
              exc |-> ""]

\* ShowResults with the statistics lost when the mail is not sent.
ShowResults_MailFailureDropsReport(ss, transport_ok) ==
    LET els == Elements(Questions(ss))
        right == {i \in 0..(Len(els) - 1) :
                     /\ i \in DOMAIN ss.user_answers
                     /\ ss.user_answers[i] = CorrectAnswer(els[i + 1])}
        total_questions == PyLen(Questions(ss))
        score_percentage == Frac(Cardinality(right) * 100, total_questions)
        mail == send_email_report(transport_ok)
    IN  IF total_questions = 0 \/ ss.total_time = 0
        THEN [report |-> <<>>, messages |-> {}, exc |-> "ZeroDivisionError"]
        ELSE IF ~mail.sent
        THEN [report |-> <<>>, messages |-> mail.messages, exc |-> ""]
        ELSE [report |-> << [score |-> score_percentage,
                             correct_answers |-> Cardinality(right),
                             incorrect_answers |-> Len(els) - Cardinality(right),
                             total_questions |-> total_questions,
                             total_time |-> format_time(ss.total_time),
                             questions_per_minute |-> Frac(total_questions * 60, ss.total_time)] >>,
              messages |-> mail.messages
                           \cup {"Quiz report has been sent to parent's email!"}
                           \cup {ScoreMessage(score_percentage, ss.current_difficulty)},
              exc |-> ""]

\* if st.session_state.quiz_submitted: ... down to the Try Another Quiz button
ShowResults(ss, transport_ok) ==
    LET els == Elements(Questions(ss))
        total_time == ss.total_time
        right == {i \in 0..(Len(els) - 1) :
                     /\ i \in DOMAIN ss.user_answers
                     /\ ss.user_answers[i] = CorrectAnswer(els[i + 1])}
        correct_answers == Cardinality(right)
        incorrect_answers == Len(els) - Cardinality(right)
        total_questions == PyLen(Questions(ss))
        score_percentage == Frac(correct_answers * 100, total_questions)
        questions_per_minute == Frac(total_questions * 60, total_time)
        mail == send_email_report(transport_ok)
    IN  IF total_questions = 0 \/ total_time = 0
        THEN [report |-> <<>>, messages |-> {}, exc |-> "ZeroDivisionError"]
        ELSE [report |-> << [score |-> score_percentage,
                             correct_answers |-> correct_answers,
                             incorrect_answers |-> incorrect_answers,
                             total_questions |-> total_questions,
                             total_time |-> format_time(total_time),
                             questions_per_minute |-> questions_per_minute] >>,
              messages |-> mail.messages
                           \cup (IF mail.sent THEN {"Quiz report has been sent to parent's email!"} ELSE {})
                           \cup {ScoreMessage(score_percentage, ss.current_difficulty)},
              exc |-> ""]

\* What generate_quiz can return: its results over every outcome of the
\* model call (the prompt does not constrain the reply).
GenerateQuizTable ==
    {<<topic, num_questions, difficulty, generate_quiz(topic, num_questions, difficulty, response)>> :
        topic \in TopicInputs, num_questions \in NumberInputs,
        difficulty \in Difficulties, response \in ApiOutcomes}
GenerateQuizResults(topic, num_questions, difficulty) ==
    {e[4] : e \in {x \in GenerateQuizTable :
                      x[1] = topic /\ x[2] = num_questions /\ x[3] = difficulty}}
NotGenerated == [data |-> None, errors |-> {}]

\* What the page shows of generate_quiz's st.error calls: that quiz generation
\* failed (the texts themselves stay in the result of generate_quiz).
Shown(g) == IF g.errors = {} THEN {} ELSE {"error: quiz generation failed"}

\* What a run leaves behind: the session, the radios' state, what was
\* rendered and shown, and the exception that ended it ("" if none).
Page(ss, w, radios, submit, try_another, shown, rep, e) ==
    [session_state |-> ss, widgets |-> w,
     view |-> [radios |-> radios, submit |-> submit, try_another |-> try_another],
     messages |-> shown, report |-> rep, exc |-> e]

\* TryAnotherPart with 'total_time' missing from the list of deleted keys.
TryAnotherPart_KeepsTotalTime(d, sub, res, click, shown) ==
    IF click = "try_another" /\ res.exc = ""
    THEN Page(Remove(sub.session_state, SessionKeys \ {"total_time"}), <<>>, 0,
              FALSE, FALSE, {}, <<>>, "")
    ELSE Page(sub.session_state, d.widgets, d.radios, TRUE, res.exc = "",
              shown \cup sub.messages \cup res.messages, res.report, res.exc)

\* TryAnotherPart with 'user_answers' missing from the list of deleted keys.
TryAnotherPart_KeepsAnswers(d, sub, res, click, shown) ==
    IF click = "try_another" /\ res.exc = ""
    THEN Page(Remove(sub.session_state, SessionKeys \ {"user_answers"}), <<>>, 0,
              FALSE, FALSE, {}, <<>>, "")
    ELSE Page(sub.session_state, d.widgets, d.radios, TRUE, res.exc = "",
              shown \cup sub.messages \cup res.messages, res.report, res.exc)

\* if st.button("Try Another Quiz"): the keys are deleted and
\* st.experimental_rerun() runs main() again, on a session without a quiz.
TryAnotherPart(d, sub, res, click, shown) ==
    IF click = "try_another" /\ res.exc = ""
    THEN Page(Remove(sub.session_state, SessionKeys), <<>>, 0, FALSE, FALSE, {}, <<>>, "")
    ELSE Page(sub.session_state, d.widgets, d.radios, TRUE, res.exc = "",
              shown \cup sub.messages \cup res.messages, res.report, res.exc)

\* if st.session_state.quiz_submitted: ...
ResultsPart(d, sub, click, shown, transport_ok) ==
    IF ~sub.session_state.quiz_submitted
    THEN Page(sub.session_state, d.widgets, d.radios, TRUE, FALSE,
              shown \cup sub.messages, <<>>, "")
    ELSE TryAnotherPart(d, sub, ShowResults(sub.session_state, transport_ok), click, shown)

\* The Submit Quiz button, reached when the loop over the questions ended
\* without an exception.
SubmitPart(d, click, shown, t, transport_ok) ==
    IF d.exc # ""
    THEN Page(d.session_state, d.widgets, d.radios, FALSE, FALSE, shown, <<>>, d.exc)
    ELSE IF click = "submit"
    THEN ResultsPart(d, SubmitSection(d.session_state, t), click, shown, transport_ok)
    ELSE ResultsPart(d, [session_state |-> d.session_state, messages |-> {}],
                     click, shown, transport_ok)

\* if 'quiz' in st.session_state: ...
QuizPart(ss1, w0, click, shown, t, transport_ok) ==
    IF "quiz" \notin DOMAIN ss1
    THEN Page(ss1, <<>>, 0, FALSE, FALSE, shown, <<>>, "")
    ELSE SubmitPart(DisplayQuiz(ss1, w0), click, shown, t, transport_ok)

\* One run of main().  click is the button pressed ("" if none); topic,
\* num_questions and difficulty are the values of the input widgets,
\* generated what generate_quiz(topic, num_questions, difficulty) returns in
\* this run, t the clock, transport_ok the mail relay.
main(ss0, w0, click, topic, num_questions, difficulty, generated, t, transport_ok) ==
    IF click = "generate" /\ topic = ""
    THEN Page(ss0, <<>>, 0, FALSE, FALSE, {"Please enter a topic"}, <<>>, "")
    ELSE IF click = "generate"
    THEN QuizPart(GenerateSection(ss0, topic, difficulty, generated.data, t),
                  w0, click, Shown(generated), t, transport_ok)
    ELSE QuizPart(ss0, w0, click, {}, t, transport_ok)

Init ==
    /\ session_state = <<>>
    /\ widgets = <<>>
    /\ now = 0
    /\ view = FormOnly
    /\ messages = {}
    /\ report = <<>>
    /\ exc = ""
    /\ event = "start"
    /\ reply = <<>>

\* The run caused by an interaction; time.time() reads now.
Run(name, w0, click, topic, num_questions, difficulty, generated, transport_ok) ==
    \E r \in {main(session_state, w0, click, topic, num_questions, difficulty, generated, now, transport_ok)} :
        /\ session_state' = r.session_state
        /\ widgets' = r.widgets
        /\ view' = r.view
        /\ messages' = r.messages
        /\ report' = r.report
        /\ exc' = r.exc
        /\ now' = now
        /\ event' = name
        /\ reply' = reply

\* A second passes.
Tick ==
    /\ now < MaxTime
    /\ now' = now + 1
    /\ UNCHANGED <<session_state, widgets, view, messages, report, exc, event, reply>>

\* The outcomes of the mail relay in a run: it is contacted only by a run
\* that shows results.
Transport(click) ==
    IF /\ "quiz_submitted" \in DOMAIN session_state
       /\ (session_state.quiz_submitted \/ click = "submit")
    THEN BOOLEAN ELSE {TRUE}

\* The user changes the topic, the number of questions or the difficulty.
Rerender ==
    \E ok \in Transport("") :
        Run("rerender", widgets, "", "", 1, "easy", NotGenerated, ok)

\* The user presses Generate Quiz.
GenerateQuiz ==
    \E topic \in TopicInputs, n \in NumberInputs, difficulty \in Difficulties :
        \E generated \in (IF topic = "" THEN {NotGenerated}
                          ELSE GenerateQuizResults(topic, n, difficulty)) :
            \E ok \in (IF Truthy(generated.data) THEN {TRUE} ELSE Transport("generate")) :
                Run("generate", widgets, "generate", topic, n, difficulty, generated, ok)

\* The user picks option o of the radio of question i.
SelectAnswer ==
    \E i \in 0..(view.radios - 1), ok \in Transport("") :
        LET options == Options(Elements(Questions(session_state))[i + 1])
        IN  \E n \in 1..Len(options) :
                Run("select", Put(widgets, i, [options |-> options, value |-> options[n]]),
                    "", "", 1, "easy", NotGenerated, ok)

\* The user presses Submit Quiz.
SubmitQuiz ==
    /\ view.submit
    /\ \E ok \in Transport("submit") :
           Run("submit", widgets, "submit", "", 1, "easy", NotGenerated, ok)

\* The user presses Try Another Quiz: the keys are deleted and
\* st.experimental_rerun() runs main() again on the empty session.
TryAnotherQuiz ==
    /\ view.try_another
    /\ \E ok \in Transport("try_another") :
           Run("new_quiz", widgets, "try_another", "", 1, "easy", NotGenerated, ok)

Next == Tick \/ Rerender \/ GenerateQuiz \/ SelectAnswer \/ SubmitQuiz \/ TryAnotherQuiz

Spec == Init /\ [][Next]_vars

(***************************************************************************)
(* The results block on longer quizzes.  The runs start from the sessions  *)
(* left by: Generate Quiz (any difficulty of the slider), an answer to     *)
(* every question, Submit Quiz one second later, then Generate Quiz        *)
(* pressed with an empty topic (which shows only the form and drops the    *)
(* radios).  From there every run is a re-render, which executes the       *)
(* results block on the stored session.                                    *)
(***************************************************************************)
SliderOptions == {"easy", "medium", "hard"}
ScoredQuizzes == SeqsUpTo({Question(k) : k \in Kinds}, MaxScored) \ {<<>>}
SubmittedSession(qs, answers, difficulty) ==
    [quiz |-> Dict(<<List(qs)>>), user_answers |-> answers, quiz_submitted |-> TRUE,
     start_time |-> 0, total_time |-> 1,
     current_topic |-> "algebra", current_difficulty |-> difficulty]

InitScored ==
    /\ \E qs \in ScoredQuizzes, difficulty \in SliderOptions :
           \E answers \in [0..(Len(qs) - 1) -> {"A", "B"}] :
               session_state = SubmittedSession(qs, answers, difficulty)
    /\ widgets = <<>>
    /\ now = 1
    /\ view = FormOnly
    /\ messages = {"Please enter a topic"}
    /\ report = <<>>
    /\ exc = ""
    /\ event = "generate"
    /\ reply = <<>>

NextScored == Rerender

SpecScored == InitScored /\ [][NextScored]_vars

(***************************************************************************)
(* The normalizer on the replies of the model.  A first visit: the model   *)
(* is about to answer with the content reply, and the user presses         *)
(* Generate Quiz with a topic.                                             *)
(***************************************************************************)
InitNormalize ==
    /\ session_state = <<>>
    /\ widgets = <<>>
    /\ now = 0
    /\ view = FormOnly
    /\ messages = {}
    /\ report = <<>>
    /\ exc = ""
    /\ event = "start"
    /\ reply \in Replies

\* Generate Quiz is pressed and the model call returns reply.
GenerateFromReply ==
    Run("generate", widgets, "generate", "algebra", 1, "medium",
        generate_quiz("algebra", 1, "medium", Content(reply)), TRUE)

NextNormalize == GenerateFromReply

SpecNormalize == InitNormalize /\ [][NextNormalize]_vars

(***************************************************************************)
(* Vocabulary of the properties.                                           *)
(***************************************************************************)
HasQuiz(ss) == "quiz" \in DOMAIN ss
Active(ss) == HasQuiz(ss) /\ ~ss.quiz_submitted
Submitted(ss) == HasQuiz(ss) /\ ss.quiz_submitted
Indices(ss) == 0..(PyLen(Questions(ss)) - 1)
AllAnswered(ss) == \A i \in Indices(ss) : i \in DOMAIN ss.user_answers
\* The step is the run caused by the interaction name.
Step(name) == event' = name /\ now' = now
AnswerAllWarning == "Please answer all questions before submitting."
GenerateFailed == {"Please enter a topic", "error: quiz generation failed"}

\* C1: a submit in an Active session is accepted (quiz_submitted becomes
\* true) exactly when every index of the quiz has a recorded answer;
\* otherwise the session is left as it was (not submitted, no total_time
\* recorded), no report is produced and the warning is shown.
C1_SubmitGating ==
    [][(Step("submit") /\ Active(session_state)) =>
          IF AllAnswered(session_state)
          THEN Submitted(session_state')
          ELSE /\ session_state' = session_state
               /\ report' = <<>>
               /\ AnswerAllWarning \in messages']_vars

C1_RejectedWithPartialAnswers ==
    /\ event = "submit"
    /\ Active(session_state)
    /\ AnswerAllWarning \in messages
    /\ session_state.user_answers # <<>>
    /\ ~AllAnswered(session_state)

\* C2: once a submitted session has shown its report, total_time keeps its
\* value through every event that is not the new-quiz action.
C2_TotalTimeCapturedOnce ==
    [][(Submitted(session_state) /\ report # <<>> /\ event' # "new_quiz") =>
          /\ "total_time" \in DOMAIN session_state'
          /\ session_state'.total_time = session_state.total_time]_vars

\* C3 as stated: the only step that takes a session out of Submitted is the
\* new-quiz action, and it leads to Empty.
C3_OnlyNewQuizLeavesSubmitted ==
    [][(Submitted(session_state) /\ ~Submitted(session_state')) =>
          (Step("new_quiz") /\ session_state' = <<>>)]_vars

\* C3 as amended: a session leaves Submitted only by the new-quiz action,
\* which leads to Empty, or by a successful generate, which leads to Active
\* with the quiz generated by that run, started at that run.
C3_ExitsOfSubmitted ==
    [][(Submitted(session_state) /\ ~Submitted(session_state')) =>
          \/ Step("new_quiz") /\ session_state' = <<>>
          \/ /\ Step("generate")
             /\ Active(session_state')
             /\ session_state'.start_time = now
             /\ messages' \cap GenerateFailed = {}]_vars

C3_GeneratedFromSubmitted ==
    /\ event = "generate"
    /\ Active(session_state)
    /\ "total_time" \in DOMAIN session_state

\* C4: once a submitted session has shown its report, no step before the
\* session is discarded changes the recorded answers.
C4_AnswersFrozenOnSubmit ==
    [][(Submitted(session_state) /\ report # <<>> /\ Submitted(session_state')) =>
          session_state'.user_answers = session_state.user_answers]_vars

\* C5: a generate that fails (empty topic, the model call raises, the reply
\* is not normalized to a quiz) leaves every key of the session as it was.
C5_FailedGenerateWritesNothing ==
    [][(Step("generate") /\ messages' \cap GenerateFailed # {}) =>
          session_state' = session_state]_vars

C5_FailedGenerateOnEmpty ==
    /\ event = "generate"
    /\ "error: quiz generation failed" \in messages
    /\ session_state = <<>>

\* C6: a successful generate leaves an Active session with no recorded
\* answer, not submitted, started at the time of generation.
C6_GenerateStartsClean ==
    [][(Step("generate") /\ messages' \cap GenerateFailed = {}) =>
          /\ Active(session_state')
          /\ session_state'.start_time = now
          /\ session_state'.user_answers = <<>>]_vars

\* C7: whenever a report is computed, total_questions is the number of
\* questions of the quiz, correct_answers the number of indices whose
\* recorded answer is the correct_answer, 0 <= correct_answers <=
\* total_questions, and score = 100 * correct_answers / total_questions, which
\* lies in [0, 100].
C7_ScoreOfReport ==
    report # <<>> =>
        LET r == report[1]
            els == Elements(Questions(session_state))
            right == {i \in Indices(session_state) :
                         /\ i \in DOMAIN session_state.user_answers
                         /\ session_state.user_answers[i] = CorrectAnswer(els[i + 1])}
        IN  /\ Submitted(session_state)
            /\ r.total_questions = Len(els)
            /\ r.total_questions > 0
            /\ r.correct_answers = Cardinality(right)
            /\ 0 <= r.correct_answers /\ r.correct_answers <= r.total_questions
            /\ r.score.den > 0
            /\ r.score.num * r.total_questions = 100 * r.correct_answers * r.score.den
            /\ 0 <= r.score.num /\ r.score.num <= 100 * r.score.den

C7_PartlyCorrectReport ==
    /\ report # <<>>
    /\ report[1].correct_answers > 0
    /\ report[1].correct_answers < report[1].total_questions

\* C8: a submitted session whose quiz has no question computes its results
\* without an exception.
C8_EmptyQuizDoesNotCrash ==
    (Submitted(session_state) /\ PyLen(Questions(session_state)) = 0) => exc = ""

\* C9: a session submitted at the instant it was started (total_time = 0)
\* computes its results without an exception.
C9_ZeroDurationDoesNotCrash ==
    (/\ Submitted(session_state)
     /\ PyLen(Questions(session_state)) > 0
     /\ session_state.total_time = 0) => exc = ""

\* C10: a session is created only from a reply parsed to a mapping whose
\* "questions" value is a sequence, and no run ends in an exception raised
\* by reading the quiz.
C10_AcceptsOnlySequenceOfQuestions ==
    HasQuiz(session_state) =>
        /\ session_state.quiz.tag = "dict"
        /\ has_questions(session_state.quiz)
        /\ Questions(session_state).tag = "list"
        /\ exc \notin {"TypeError", "KeyError"}

\* C11: the new-quiz action leaves the session Empty in one step (none of
\* quiz, user_answers, quiz_submitted, start_time, total_time, current_topic
\* and current_difficulty is present, and no radio keeps a selection), and
\* no step ever leaves a session with only a part of the keys that a
\* generate writes.
C11_NewQuizResetsAtOnce ==
    [][/\ Step("new_quiz") =>
              /\ Submitted(session_state)
              /\ session_state' = <<>>
              /\ widgets' = <<>>
       /\ \/ DOMAIN session_state' = {}
          \/ SessionKeys \ {"total_time"} \subseteq DOMAIN session_state']_vars

C11_ResetAfterResults ==
    /\ event = "new_quiz"
    /\ session_state = <<>>
    /\ view = FormOnly
    /\ report = <<>>

\* C12: once a submitted session has produced its report, no later run for
\* the same submitted session (a re-render, a selection, a second submit)
\* produces the report or reports the notification as sent again.
C12_ReportProducedOnce ==
    [][(/\ Submitted(session_state)
        /\ report # <<>>
        /\ now' = now
        /\ Submitted(session_state')) =>
          /\ report' = <<>>
          /\ "Quiz report has been sent to parent's email!" \notin messages']_vars

\* C13: the results show exactly one of the score messages: the
\* congratulation of the session's difficulty when score >= 80, the
\* encouragement when 60 <= score < 80, the suggestion to review when
\* score < 60 (score = 100 * correct_answers / total_questions).
Congratulation(difficulty) ==
    IF difficulty = "easy" THEN "Excellent! You're ready for medium difficulty!"
    ELSE IF difficulty = "medium" THEN "Outstanding! Try hard difficulty next!"
    ELSE "Impressive mastery of advanced concepts!"
Encouragement == "Good job! Keep practicing to improve your score."
ReviewAdvice == "You might want to review the topic and try again."
BandMessages == {Congratulation(d) : d \in SliderOptions} \cup {Encouragement, ReviewAdvice}

C13_MessageOfScoreBand ==
    report # <<>> =>
        LET c == report[1].correct_answers
            t == report[1].total_questions
            shown == messages \cap BandMessages
        IN  /\ Cardinality(shown) = 1
            /\ 100 * c >= 80 * t =>
                   shown = {Congratulation(session_state.current_difficulty)}
            /\ (100 * c >= 60 * t /\ 100 * c < 80 * t) => shown = {Encouragement}
            /\ 100 * c < 60 * t => shown = {ReviewAdvice}

C13_ScoreExactlySixty ==
    /\ report # <<>>
    /\ report[1].correct_answers = 3
    /\ report[1].total_questions = 5
    /\ Encouragement \in messages

\* The inputs of the runs that the interaction name can cause in the current
\* state: the radios' state, the button pressed, the three input widgets and
\* the result of generate_quiz.
Inputs(name) ==
    IF name = "generate"
    THEN {<<widgets, "generate", topic, n, difficulty, generated>> :
             topic \in TopicInputs \ {""}, n \in NumberInputs, difficulty \in Difficulties,
             generated \in UNION {GenerateQuizResults(t, m, d) :
                                     t \in TopicInputs \ {""}, m \in NumberInputs,
                                     d \in Difficulties}}
    ELSE IF name = "select"
    THEN {<<Put(widgets, i, [options |-> Options(Elements(Questions(session_state))[i + 1]),
                             value |-> Options(Elements(Questions(session_state))[i + 1])[n]]),
            "", "", 1, "easy", NotGenerated>> :
             i \in 0..(view.radios - 1), n \in 1..2}
    ELSE IF name = "submit" THEN {<<widgets, "submit", "", 1, "easy", NotGenerated>>}
    ELSE IF name = "new_quiz" THEN {<<widgets, "try_another", "", 1, "easy", NotGenerated>>}
    ELSE {<<widgets, "", "", 1, "easy", NotGenerated>>}
RunWith(in, transport_ok) ==
    main(session_state, in[1], in[2], in[3], in[4], in[5], in[6], now, transport_ok)
MailFailed == "Failed to send email report"
MailSent == "Quiz report has been sent to parent's email!"

\* C14: a run in which sending the report fails shows the failure as a
\* message and ends without an exception; the statistics it shows
\* (score, correct_answers, total_questions, total_time), the rest of the
\* page and the session it leaves (Submitted, same quiz, same answers) are
\* those of the same run with the mail sent.
C14_MailFailureIsolated ==
    [][(now' = now /\ MailFailed \in messages') =>
          /\ exc' = ""
          /\ report' # <<>>
          /\ MailSent \notin messages'
          /\ Submitted(session_state')
          /\ \E in \in Inputs(event') :
                 /\ RunWith(in, FALSE).session_state = session_state'
                 /\ RunWith(in, FALSE).widgets = widgets'
          /\ \A in \in Inputs(event') :
                 \A f \in {RunWith(in, FALSE)}, s \in {RunWith(in, TRUE)} :
                     (f.session_state = session_state' /\ f.widgets = widgets') =>
                         /\ f.report = report'
                         /\ f.messages = messages'
                         /\ s.report = report'
                         /\ s.exc = ""
                         /\ s.view = view'
                         /\ s.session_state = session_state'
                         /\ s.widgets = widgets'
                         /\ s.messages \ {MailSent} = messages' \ {MailFailed}
                         /\ MailSent \in s.messages]_vars

C14_ReportShownWithoutMail ==
    /\ event = "submit"
    /\ MailFailed \in messages
    /\ report # <<>>
    /\ report[1].correct_answers = 1
    /\ report[1].total_questions = 2
    /\ Submitted(session_state)

\* C15: a selection in an Active session changes the state of one radio at
\* most; user_answers of that index becomes the first character of the
\* option selected there, whatever it held, every other index keeps its
\* answer (recorded or not), and quiz, quiz_submitted, start_time and the
\* other keys of the session are unchanged.
C15_SelectSetsOneAnswer ==
    [][(Step("select") /\ Active(session_state)) =>
          LET changed == {i \in DOMAIN widgets' :
                             i \notin DOMAIN widgets \/ widgets[i] # widgets'[i]}
              els == Elements(Questions(session_state))
          IN  /\ Cardinality(changed) <= 1
              /\ changed = {} => session_state' = session_state
              /\ \A i \in changed :
                     /\ i \in Indices(session_state)
                     /\ \E n \in 1..Len(Options(els[i + 1])) :
                            widgets'[i].value = Options(els[i + 1])[n]
                     /\ session_state' =
                            Put(session_state, "user_answers",
                                Put(session_state.user_answers, i, Head(widgets'[i].value)))]_vars

C15_SelectedWithOlderAnswerKept ==
    /\ event = "select"
    /\ Active(session_state)
    /\ DOMAIN widgets = {1}
    /\ DOMAIN session_state.user_answers = {0, 1}
    /\ session_state.user_answers[1] = Head(widgets[1].value)

\* C16: when the reply is not JSON as a whole but is a JSON object with a
\* list of questions between two stretches of prose, the quiz stored by the
\* generate is that object.
Quizzes == {Dict(<<List(qs)>>) : qs \in QuestionLists \ {<<>>}}
C16_BraceExtractionRecoversQuiz ==
    \A v \in Quizzes, pre \in Prose, post \in Prose :
        (/\ event = "generate"
         /\ reply = pre \o Serialize(v) \o post
         /\ ~json_loads(reply).ok) =>
            /\ format_response_to_json(Content(reply)).val = v
            /\ HasQuiz(session_state)
            /\ session_state.quiz = v

\* C17: in every reachable state with a quiz, every key of user_answers is
\* an index of the questions of that quiz, and when quiz_submitted is true
\* every index has a recorded answer and total_time is set.
C17_AnswersWithinQuiz ==
    HasQuiz(session_state) =>
        /\ DOMAIN session_state.user_answers \subseteq Indices(session_state)
        /\ session_state.quiz_submitted =>
               /\ AllAnswered(session_state)
               /\ "total_time" \in DOMAIN session_state

C17_SubmittedTwoAnswers ==
    /\ event = "select"
    /\ Submitted(session_state)
    /\ exc = ""
    /\ Indices(session_state) = {0, 1}
    /\ DOMAIN session_state.user_answers = {0, 1}
    /\ "total_time" \in DOMAIN session_state

====
